---- MODULE Spec2Model ----
(***************************************************************************)
(* Model of the reminder service in src/server.js: the three schedule      *)
(* gates, sendReminderEmail, processReminders and the two trigger routes.  *)
(*                                                                         *)
(* A Date is an instant: minutes of local time since local midnight of     *)
(* the first day of Calendar.  The store (Firestore) holds the reminders   *)
(* and users collections; a cycle of processReminders suspends at every    *)
(* await (the fetch, the user lookup, sendMail, the update), and each      *)
(* awaited call either resolves or rejects.  Code between two awaits runs  *)
(* without interruption, so it is one step here: a step runs the for-loop  *)
(* over the reminders that are not due up to the next await or the return. *)
(*                                                                         *)
(* Spec is the service under requests on its two routes; LiveSpec adds     *)
(* that every awaited call eventually resolves or rejects; GateSpec is one *)
(* call of shouldSendToday, isTimeToSend or wasSentToday on its own.       *)
(***************************************************************************)
EXTENDS Integers, Sequences, FiniteSets, TLC

\* ------------------------------------------------------------ bounds
\* Days of the run are 0..MaxDay; the reminders are documents 1..NumReminders;
\* at most MaxCycles requests arrive in one run.
MaxDay == 1
NumReminders == 3
MaxCycles == 2

\* The wall-clock moments the run visits on each day (hours and minutes).
SampleHours == {9}
SampleMinutes == {15, 16}

\* Local calendar of the run's days: getFullYear, getMonth (0-based),
\* getDate and getDay (0 = Sunday) of day 0, 1, 2, ...
Calendar ==
  << [year |-> 2024, month |-> 3, date |-> 1, wd |-> 1],
     [year |-> 2024, month |-> 3, date |-> 2, wd |-> 2],
     [year |-> 2024, month |-> 3, date |-> 3, wd |-> 3],
     [year |-> 2024, month |-> 3, date |-> 4, wd |-> 4],
     [year |-> 2024, month |-> 3, date |-> 5, wd |-> 5],
     [year |-> 2024, month |-> 3, date |-> 6, wd |-> 6],
     [year |-> 2024, month |-> 3, date |-> 7, wd |-> 0] >>

\* Local time is UTC plus this many minutes on the host.
HostTimezone == [offsetMinutes |-> 120]

MinutesPerDay == 24 * 60

\* ------------------------------------------------------------ values
Undefined == "<undefined>"
Absent == [absent |-> TRUE]

RemIds == 1..NumReminders
Routes == {"/process-reminders", "/cron/process-reminders"}

\* ------------------------------------------------------------ Date
DayOf(t) == t \div MinutesPerDay
getHours(t) == (t % MinutesPerDay) \div 60
getMinutes(t) == t % 60
getDay(t) == Calendar[DayOf(t) + 1].wd
getDate(t) == Calendar[DayOf(t) + 1].date
getMonth(t) == Calendar[DayOf(t) + 1].month
getFullYear(t) == Calendar[DayOf(t) + 1].year

\* toISOString renders the instant in UTC; new Date(iso) reads it back.
toISOString(t) ==
  [utcDay |-> (t - HostTimezone.offsetMinutes) \div MinutesPerDay,
   utcMinute |-> (t - HostTimezone.offsetMinutes) % MinutesPerDay]
parseISO(iso) ==
  iso.utcDay * MinutesPerDay + iso.utcMinute + HostTimezone.offsetMinutes

\* ------------------------------------------------------------ strings
\* The characters of the strings that the store holds or that a gate is
\* called with.
CharsOf ==
  [s \in {"09:00", "09:30", "10:00", "00:15", "23:59",
          "Monday", "MONDAY", "Funday", "tuesday", "sunday", "SaTuRdAy",
          "Wednesday", "THURSDAY", "friday", "mon", ""} |->
     CASE s = "09:00" -> <<"0","9",":","0","0">>
       [] s = "09:30" -> <<"0","9",":","3","0">>
       [] s = "10:00" -> <<"1","0",":","0","0">>
       [] s = "00:15" -> <<"0","0",":","1","5">>
       [] s = "23:59" -> <<"2","3",":","5","9">>
       [] s = "Monday" -> <<"M","o","n","d","a","y">>
       [] s = "MONDAY" -> <<"M","O","N","D","A","Y">>
       [] s = "Funday" -> <<"F","u","n","d","a","y">>
       [] s = "tuesday" -> <<"t","u","e","s","d","a","y">>
       [] s = "sunday" -> <<"s","u","n","d","a","y">>
       [] s = "SaTuRdAy" -> <<"S","a","T","u","R","d","A","y">>
       [] s = "Wednesday" -> <<"W","e","d","n","e","s","d","a","y">>
       [] s = "THURSDAY" -> <<"T","H","U","R","S","D","A","Y">>
       [] s = "friday" -> <<"f","r","i","d","a","y">>
       [] s = "mon" -> <<"m","o","n">>
       [] s = "" -> <<>>]

UpperCase == <<"A","B","C","D","E","F","G","H","I","J","K","L","M",
               "N","O","P","Q","R","S","T","U","V","W","X","Y","Z">>
LowerCase == <<"a","b","c","d","e","f","g","h","i","j","k","l","m",
               "n","o","p","q","r","s","t","u","v","w","x","y","z">>
Digits == <<"0","1","2","3","4","5","6","7","8","9">>

\* toLowerCase that leaves the string as it is.
toLowerCaseKeepsCase(s) == s

toLowerCase(s) ==
  [i \in 1..Len(s) |->
     IF \E k \in 1..Len(UpperCase) : UpperCase[k] = s[i]
     THEN LowerCase[CHOOSE k \in 1..Len(UpperCase) : UpperCase[k] = s[i]]
     ELSE s[i]]

RECURSIVE split(_, _)
split(s, sep) ==
  IF \A i \in 1..Len(s) : s[i] # sep
  THEN <<s>>
  ELSE LET i == CHOOSE i \in 1..Len(s) :
                  s[i] = sep /\ \A j \in 1..(i - 1) : s[j] # sep
       IN <<SubSeq(s, 1, i - 1)>> \o split(SubSeq(s, i + 1, Len(s)), sep)

IsDigit(c) == \E k \in 1..Len(Digits) : Digits[k] = c
DigitValue(c) == (CHOOSE k \in 1..Len(Digits) : Digits[k] = c) - 1

RECURSIVE DecimalValue(_)
DecimalValue(s) ==
  IF s = <<>> THEN 0
  ELSE 10 * DecimalValue(SubSeq(s, 1, Len(s) - 1)) + DigitValue(s[Len(s)])

\* Number(string): the empty string is 0, a run of decimal digits is its
\* value, anything else here is NaN.
Number(s) ==
  IF \A i \in 1..Len(s) : IsDigit(s[i])
  THEN [nan |-> FALSE, value |-> DecimalValue(s)]
  ELSE [nan |-> TRUE, value |-> 0]

\* n === x for a number n and a parsed number x (NaN equals nothing).
StrictEquals(n, x) == ~x.nan /\ x.value = n


\* ------------------------------------------------------------ gates
Str_sunday == <<"s","u","n","d","a","y">>
Str_monday == <<"m","o","n","d","a","y">>
Str_tuesday == <<"t","u","e","s","d","a","y">>
Str_wednesday == <<"w","e","d","n","e","s","d","a","y">>
Str_thursday == <<"t","h","u","r","s","d","a","y">>
Str_friday == <<"f","r","i","d","a","y">>
Str_saturday == <<"s","a","t","u","r","d","a","y">>

\* dayMap[name]: the weekday number of a key, undefined for any other name.
dayMap(name) ==
  CASE name = Str_sunday -> [defined |-> TRUE, value |-> 0]
    [] name = Str_monday -> [defined |-> TRUE, value |-> 1]
    [] name = Str_tuesday -> [defined |-> TRUE, value |-> 2]
    [] name = Str_wednesday -> [defined |-> TRUE, value |-> 3]
    [] name = Str_thursday -> [defined |-> TRUE, value |-> 4]
    [] name = Str_friday -> [defined |-> TRUE, value |-> 5]
    [] name = Str_saturday -> [defined |-> TRUE, value |-> 6]
    [] OTHER -> [defined |-> FALSE, value |-> 0]

\* dayMap[day.toLowerCase()] and Number(reminderTime.split(':')[0]) of the
\* strings that the store holds.
DayNumberOf == [s \in DOMAIN CharsOf |-> dayMap(toLowerCase(CharsOf[s]))]
HourOf == [s \in DOMAIN CharsOf |-> Number(split(CharsOf[s], ":")[1])]

shouldSendToday(days, t) ==
  LET today == getDay(t)
  IN \E i \in 1..Len(days) :
       LET n == DayNumberOf[days[i]]
       IN n.defined /\ n.value = today

\* isTimeToSend with the window closed at minute 15.
isTimeToSendBefore15(reminderTime, t) ==
  LET currentHour == getHours(t)
      currentMinute == getMinutes(t)
      reminderHour == HourOf[reminderTime]
  IN StrictEquals(currentHour, reminderHour) /\ currentMinute < 15

isTimeToSend(reminderTime, t) ==
  LET currentHour == getHours(t)
      currentMinute == getMinutes(t)
      reminderHour == HourOf[reminderTime]
  IN StrictEquals(currentHour, reminderHour) /\ currentMinute <= 15

\* wasSentToday as a window of 24 hours.
wasSentTodayWithin24h(lastSent, t) ==
  IF lastSent = Absent THEN FALSE
  ELSE LET lastSentDate == parseISO(lastSent)
       IN t - lastSentDate < MinutesPerDay /\ lastSentDate - t < MinutesPerDay

\* wasSentToday with the day of the month compared with the month.
wasSentTodayTypo(lastSent, t) ==
  IF lastSent = Absent THEN FALSE
  ELSE LET lastSentDate == parseISO(lastSent)
       IN /\ getDate(lastSentDate) = getMonth(t)
          /\ getMonth(lastSentDate) = getMonth(t)
          /\ getFullYear(lastSentDate) = getFullYear(t)

wasSentToday(lastSent, t) ==
  IF lastSent = Absent THEN FALSE
  ELSE LET lastSentDate == parseISO(lastSent)
       IN /\ getDate(lastSentDate) = getDate(t)
          /\ getMonth(lastSentDate) = getMonth(t)
          /\ getFullYear(lastSentDate) = getFullYear(t)

\* The gates without the check of the time of day.
PassesGatesAnyTime(reminder, t) ==
  /\ shouldSendToday(reminder.days, t)
  /\ ~wasSentToday(reminder.lastSent, t)

\* The three continue statements at the head of the loop body: the
\* reminder goes on to the user lookup iff none of them is taken.
PassesGates(reminder, t) ==
  /\ shouldSendToday(reminder.days, t)
  /\ isTimeToSend(reminder.time, t)
  /\ ~wasSentToday(reminder.lastSent, t)

\* ------------------------------------------------------------ store
\* The users collection: "u1" has a document, "u2" has none.
UserDocs ==
  [u \in {"u1"} |->
     [email |-> "ann@example.org", name |-> Undefined, fullName |-> "Ann"]]

\* What the client app has stored as the reminders' configurations, by id:
\* a reminder whose user has no document and whose days hold an unknown
\* name and an upper-case one; a reminder due on two days; a disabled one;
\* one whose hour the run never visits.
ReminderTable ==
  << [enabled |-> TRUE, days |-> <<"Funday", "MONDAY">>, time |-> "09:30",
      userId |-> "u2"],
     [enabled |-> TRUE, days |-> <<"Monday", "tuesday">>, time |-> "09:00",
      userId |-> "u1"],
     [enabled |-> FALSE, days |-> <<"Monday">>, time |-> "09:00", userId |-> "u1"],
     [enabled |-> TRUE, days |-> <<"Monday">>, time |-> "10:00", userId |-> "u1"] >>
ConfigOf(r) == ReminderTable[((r - 1) % Len(ReminderTable)) + 1]

NewReminder(c) ==
  [enabled |-> c.enabled, days |-> c.days, time |-> c.time, userId |-> c.userId,
   lastSent |-> Absent, lastSentStatus |-> Undefined, lastSentError |-> Absent]

\* An update that also switches the document off.
updateAndDisable(doc, fields) ==
  [f \in DOMAIN doc |->
     IF f \in DOMAIN fields THEN fields[f]
     ELSE IF f = "enabled" THEN FALSE ELSE doc[f]]

\* DocumentReference.update(fields): the named fields are set, the others kept.
update(doc, fields) ==
  [f \in DOMAIN doc |-> IF f \in DOMAIN fields THEN fields[f] ELSE doc[f]]

\* The environment the process was started with; a variable that is not
\* set reads as undefined.
EnvConfigs == { [API_KEY |-> Undefined, CRON_SECRET |-> "cron-key"] }
HeaderValues == {Undefined, "cron-key"}



\* ------------------------------------------------------------ state
VARIABLES
  now,            \* the host clock (an instant)
  env,            \* process.env: API_KEY and CRON_SECRET
  reminders,      \* the reminders collection: id -> document
  emails,         \* mail handed to the transport: reminder id -> day -> count
  pc,             \* per route: where its invocation of the handler stands
  request,        \* per route: the header of its latest request, and whether
                  \* processReminders was invoked for it
  response,       \* per route: the latest response (status, body)
  snapshot,       \* per route: remindersSnapshot.docs of its cycle
  idx,            \* per route: the position of the for-loop in snapshot
  processedCount, \* per route
  sentCount,      \* per route
  pending,        \* per route: the fields of the update being awaited
  cycle,          \* per route: what its current (or last) cycle has done
  recorded,       \* successful deliveries written: reminder id -> day -> count
  started,        \* number of requests received in the run
  overlapped,     \* whether a cycle was ever started while another was running
  gate            \* a call of one of the three gates: its arguments, the
                  \* clock at the call, and what it returned

vars == <<now, env, reminders, emails, pc, request, response, snapshot, idx,
          processedCount, sentCount, pending, cycle, recorded, started, overlapped,
          gate>>

Days == 0..MaxDay

\* The moments of the run, in order.
Moments ==
  {d * MinutesPerDay + h * 60 + m : d \in Days, h \in SampleHours, m \in SampleMinutes}

NoResponse == [status |-> 0, body |-> [none |-> TRUE]]
NoRequest == [header |-> Undefined, invoked |-> FALSE, seen |-> FALSE]
NoFields == [none |-> TRUE]

\* What a cycle has done to one reminder: when it was evaluated, what the
\* user lookup gave ("none", "exists", "missing", "error"), what the sender
\* returned ("none", "true", "false") and what became of the update
\* ("none", "issued", "applied", "rejected").
NoEntry == [evaluated |-> FALSE, at |-> 0, user |-> "none", send |-> "none",
            write |-> "none"]
NoCycle == [fetch |-> "none", ret |-> "none", seen |-> [r \in RemIds |-> NoEntry]]

\* No gate is being called on its own.
NoCall == [fn |-> "none", days |-> <<>>, time |-> "", lastSent |-> Absent,
           sentAt |-> 0, at |-> 0, called |-> FALSE, result |-> FALSE]

Secret(rt) == IF rt = "/process-reminders" THEN env.API_KEY ELSE env.CRON_SECRET

RECURSIVE EnabledDocs(_, _)
\* The documents with enabled == true among ids n..NumReminders, by id.
EnabledDocs(store, n) ==
  IF n > NumReminders THEN <<>>
  ELSE (IF store[n].enabled = TRUE THEN <<[id |-> n, data |-> store[n]]>> ELSE <<>>)
       \o EnabledDocs(store, n + 1)

Init ==
  /\ now = CHOOSE t \in Moments : \A u \in Moments : t <= u
  /\ env \in EnvConfigs
  /\ reminders = [r \in RemIds |-> NewReminder(ConfigOf(r))]
  /\ emails = [r \in RemIds |-> [d \in Days |-> 0]]
  /\ pc = [rt \in Routes |-> "idle"]
  /\ request = [rt \in Routes |-> NoRequest]
  /\ response = [rt \in Routes |-> NoResponse]
  /\ snapshot = [rt \in Routes |-> <<>>]
  /\ idx = [rt \in Routes |-> 1]
  /\ processedCount = [rt \in Routes |-> 0]
  /\ sentCount = [rt \in Routes |-> 0]
  /\ pending = [rt \in Routes |-> NoFields]
  /\ cycle = [rt \in Routes |-> NoCycle]
  /\ recorded = [r \in RemIds |-> [d \in Days |-> 0]]
  /\ started = 0
  /\ overlapped = FALSE
  /\ gate = NoCall

\* Time passes: the clock moves to the next moment of the run.
Tick ==
  /\ \E t \in Moments : t > now
  /\ now' = CHOOSE t \in Moments : t > now /\ \A u \in Moments : u > now => t <= u
  /\ UNCHANGED <<gate, env, reminders, emails, pc, request, response, snapshot, idx,
                 processedCount, sentCount, pending, cycle, recorded, started, overlapped>>

\* ---------------------------------------------------------- routes
\* GET /process-reminders and GET /cron/process-reminders: the header is
\* compared with the secret; on a mismatch 401, otherwise processReminders
\* is called and runs up to its first await (the fetch).
Respond(rt, status, body) == response' = [response EXCEPT ![rt] = [status |-> status, body |-> body]]

Unauthorized(rt, h) ==
  /\ pc[rt] = "idle"
  /\ h # Secret(rt)
  /\ started < MaxCycles
  /\ started' = started + 1
  /\ request' = [request EXCEPT ![rt] = [header |-> h, invoked |-> FALSE, seen |-> TRUE]]
  /\ Respond(rt, 401, [error |-> "Unauthorized"])
  /\ UNCHANGED <<gate, now, env, reminders, emails, pc, snapshot, idx,
                 processedCount, sentCount, pending, cycle, recorded, overlapped>>

\* Invoke behind a lock: no cycle starts while another is running.
InvokeExclusive(rt, h) ==
  /\ pc[rt] = "idle"
  /\ \A other \in Routes : pc[other] = "idle"
  /\ ~(h # Secret(rt))
  /\ started < MaxCycles
  /\ started' = started + 1
  /\ request' = [request EXCEPT ![rt] = [header |-> h, invoked |-> TRUE, seen |-> TRUE]]
  /\ pc' = [pc EXCEPT ![rt] = "fetch"]
  /\ snapshot' = [snapshot EXCEPT ![rt] = <<>>]
  /\ idx' = [idx EXCEPT ![rt] = 1]
  /\ processedCount' = [processedCount EXCEPT ![rt] = 0]
  /\ sentCount' = [sentCount EXCEPT ![rt] = 0]
  /\ pending' = [pending EXCEPT ![rt] = NoFields]
  /\ cycle' = [cycle EXCEPT ![rt] = NoCycle]
  /\ overlapped' = (overlapped \/ \E other \in Routes : pc[other] # "idle")
  /\ UNCHANGED <<gate, now, env, reminders, emails, response, recorded>>

Invoke(rt, h) ==
  /\ pc[rt] = "idle"
  /\ ~(h # Secret(rt))
  /\ started < MaxCycles
  /\ started' = started + 1
  /\ request' = [request EXCEPT ![rt] = [header |-> h, invoked |-> TRUE, seen |-> TRUE]]
  /\ pc' = [pc EXCEPT ![rt] = "fetch"]
  /\ snapshot' = [snapshot EXCEPT ![rt] = <<>>]
  /\ idx' = [idx EXCEPT ![rt] = 1]
  /\ processedCount' = [processedCount EXCEPT ![rt] = 0]
  /\ sentCount' = [sentCount EXCEPT ![rt] = 0]
  /\ pending' = [pending EXCEPT ![rt] = NoFields]
  /\ cycle' = [cycle EXCEPT ![rt] = NoCycle]
  /\ overlapped' = (overlapped \/ \E other \in Routes : pc[other] # "idle")
  /\ UNCHANGED <<gate, now, env, reminders, emails, response, recorded>>

Request(rt, h) == Unauthorized(rt, h) \/ Invoke(rt, h)


\* ---------------------------------------------------------- processReminders
Doc(rt) == snapshot[rt][idx[rt]]

\* return from processReminders and res.json(result) in the route.
Return(rt, body) ==
  /\ pc' = [pc EXCEPT ![rt] = "idle"]
  /\ Respond(rt, 200, body)

\* A catch clause that throws the error on to the caller.
CatchRethrows(rt, message) ==
  /\ pc' = [pc EXCEPT ![rt] = "raised"]
  /\ UNCHANGED response

\* The catch clause around the whole cycle.
Catch(rt, message) == Return(rt, [success |-> FALSE, error |-> message])

RECURSIVE NextDue(_, _, _)
\* The position of the first document from i on that passes the three
\* gates at t, or Len(docs) + 1.
NextDue(docs, i, t) ==
  IF i > Len(docs) THEN i
  ELSE IF PassesGates(docs[i].data, t) THEN i
  ELSE NextDue(docs, i + 1, t)

\* The for-loop from position i up to its next await or to the return:
\* the documents that are not due are passed over (continue); the first one
\* that is due is counted and its user is looked up; when no document is
\* left the summary is returned.
RunLoop(rt, docs, i, seen, sent) ==
  LET j == NextDue(docs, i, now)
      evaluated == {docs[k].id : k \in i..(IF j > Len(docs) THEN Len(docs) ELSE j)}
      seen2 == [r \in RemIds |->
                  IF r \in evaluated
                  THEN update(seen[r], [evaluated |-> TRUE, at |-> now])
                  ELSE seen[r]]
  IN /\ idx' = [idx EXCEPT ![rt] = j]
     /\ sentCount' = [sentCount EXCEPT ![rt] = sent]
     /\ IF j > Len(docs)
        THEN /\ cycle' = [cycle EXCEPT ![rt].seen = seen2, ![rt].fetch = "ok",
                                       ![rt].ret = "summary"]
             /\ processedCount' = processedCount
             /\ Return(rt, [success |-> TRUE, processed |-> processedCount[rt],
                            sent |-> sent])
        ELSE /\ cycle' = [cycle EXCEPT ![rt].seen = seen2, ![rt].fetch = "ok"]
             /\ processedCount' = [processedCount EXCEPT ![rt] = @ + 1]
             /\ pc' = [pc EXCEPT ![rt] = "getUser"]
             /\ UNCHANGED response

\* The query for the enabled reminders resolves: the loop starts.
FetchResolve(rt) ==
  /\ pc[rt] = "fetch"
  /\ snapshot' = [snapshot EXCEPT ![rt] = EnabledDocs(reminders, 1)]
  /\ RunLoop(rt, snapshot'[rt], 1, cycle[rt].seen, 0)
  /\ UNCHANGED <<gate, now, env, reminders, emails, request, pending, recorded, started, overlapped>>

\* A fetch failure taken for an empty result.
FetchRejectSwallowed(rt) ==
  /\ pc[rt] = "fetch"
  /\ cycle' = [cycle EXCEPT ![rt].fetch = "failed", ![rt].ret = "summary"]
  /\ Return(rt, [success |-> TRUE, processed |-> 0, sent |-> 0])
  /\ UNCHANGED <<gate, now, env, reminders, emails, request, snapshot, idx,
                 processedCount, sentCount, pending, recorded, started, overlapped>>

\* The query rejects: the catch clause returns the failure.
FetchReject(rt) ==
  /\ pc[rt] = "fetch"
  /\ cycle' = [cycle EXCEPT ![rt].fetch = "failed", ![rt].ret = "error"]
  /\ Catch(rt, "fetch failed")
  /\ UNCHANGED <<gate, now, env, reminders, emails, request, snapshot, idx,
                 processedCount, sentCount, pending, recorded, started, overlapped>>

\* The lookup resolves with no document, and the continue is missing.
UserMissingSends(rt) ==
  /\ pc[rt] = "getUser"
  /\ Doc(rt).data.userId \notin DOMAIN UserDocs
  /\ cycle' = [cycle EXCEPT ![rt].seen[Doc(rt).id].user = "missing"]
  /\ pc' = [pc EXCEPT ![rt] = "sendMail"]
  /\ UNCHANGED <<gate, now, env, reminders, emails, request, response, snapshot, idx,
                 processedCount, sentCount, pending, recorded, started, overlapped>>

\* The lookup resolves with no document: the reminder is skipped.
UserMissing(rt) ==
  /\ pc[rt] = "getUser"
  /\ Doc(rt).data.userId \notin DOMAIN UserDocs
  /\ RunLoop(rt, snapshot[rt], idx[rt] + 1,
             [cycle[rt].seen EXCEPT ![Doc(rt).id].user = "missing"], sentCount[rt])
  /\ UNCHANGED <<gate, now, env, reminders, emails, request, snapshot, pending, recorded,
                 started, overlapped>>

\* The lookup resolves with the document: sendReminderEmail is called and
\* runs up to transporter.sendMail.
UserFound(rt) ==
  /\ pc[rt] = "getUser"
  /\ Doc(rt).data.userId \in DOMAIN UserDocs
  /\ cycle' = [cycle EXCEPT ![rt].seen[Doc(rt).id].user = "exists"]
  /\ pc' = [pc EXCEPT ![rt] = "sendMail"]
  /\ UNCHANGED <<gate, now, env, reminders, emails, request, response, snapshot, idx,
                 processedCount, sentCount, pending, recorded, started, overlapped>>

\* The lookup rejects: the catch clause ends the cycle.
UserReject(rt) ==
  /\ pc[rt] = "getUser"
  /\ cycle' = [cycle EXCEPT ![rt].seen[Doc(rt).id].user = "error", ![rt].ret = "error"]
  /\ Catch(rt, "lookup failed")
  /\ UNCHANGED <<gate, now, env, reminders, emails, request, snapshot, idx,
                 processedCount, sentCount, pending, recorded, started, overlapped>>

\* The success update without the status; the failure update with lastSent.
SuccessFieldsNoStatus(t) == [lastSent |-> toISOString(t)]
FailureFieldsWithLastSent(t) ==
  [lastSent |-> toISOString(t), lastSentStatus |-> "failed",
   lastSentError |-> toISOString(t)]

\* The fields written after a successful send and after a failed one.
SuccessFields(t) == [lastSent |-> toISOString(t), lastSentStatus |-> "success"]
FailureFields(t) == [lastSentStatus |-> "failed", lastSentError |-> toISOString(t)]

\* sendMail resolves: the mail is with the transport, sendReminderEmail
\* returns true and the success update is issued.
SendMailResolve(rt) ==
  /\ pc[rt] = "sendMail"
  /\ emails' = [emails EXCEPT ![Doc(rt).id][DayOf(now)] = @ + 1]
  /\ cycle' = [cycle EXCEPT ![rt].seen[Doc(rt).id].send = "true",
                            ![rt].seen[Doc(rt).id].write = "issued"]
  /\ pending' = [pending EXCEPT ![rt] = SuccessFields(now)]
  /\ pc' = [pc EXCEPT ![rt] = "update"]
  /\ UNCHANGED <<gate, now, env, reminders, request, response, snapshot, idx,
                 processedCount, sentCount, recorded, started, overlapped>>

\* sendMail rejects and sendReminderEmail calls it again.
SendMailRejectRetries(rt) ==
  /\ pc[rt] = "sendMail"
  /\ cycle' = [cycle EXCEPT ![rt].seen[Doc(rt).id].send = "false"]
  /\ UNCHANGED <<gate, now, env, reminders, emails, pc, request, response, snapshot,
                 idx, processedCount, sentCount, pending, recorded, started, overlapped>>

\* sendMail rejects: sendReminderEmail catches the error and returns false,
\* and the failure update is issued.
SendMailReject(rt) ==
  /\ pc[rt] = "sendMail"
  /\ cycle' = [cycle EXCEPT ![rt].seen[Doc(rt).id].send = "false",
                            ![rt].seen[Doc(rt).id].write = "issued"]
  /\ pending' = [pending EXCEPT ![rt] = FailureFields(now)]
  /\ pc' = [pc EXCEPT ![rt] = "update"]
  /\ UNCHANGED <<gate, now, env, reminders, emails, request, response, snapshot, idx,
                 processedCount, sentCount, recorded, started, overlapped>>

\* The update resolves: the fields are in the store; after a successful
\* send sentCount is incremented; the loop goes on.
UpdateResolve(rt) ==
  /\ pc[rt] = "update"
  /\ reminders' = [reminders EXCEPT ![Doc(rt).id] = update(@, pending[rt])]
  /\ recorded' =
       IF reminders'[Doc(rt).id].lastSent # reminders[Doc(rt).id].lastSent
       THEN [recorded EXCEPT
               ![Doc(rt).id][DayOf(parseISO(reminders'[Doc(rt).id].lastSent))] = @ + 1]
       ELSE recorded
  /\ pending' = [pending EXCEPT ![rt] = NoFields]
  /\ RunLoop(rt, snapshot[rt], idx[rt] + 1,
             [cycle[rt].seen EXCEPT ![Doc(rt).id].write = "applied"],
             IF cycle[rt].seen[Doc(rt).id].send = "true"
             THEN sentCount[rt] + 1 ELSE sentCount[rt])
  /\ UNCHANGED <<gate, now, env, emails, request, snapshot, started, overlapped>>

\* The update rejects: the catch clause ends the cycle.
UpdateReject(rt) ==
  /\ pc[rt] = "update"
  /\ cycle' = [cycle EXCEPT ![rt].seen[Doc(rt).id].write = "rejected",
                            ![rt].ret = "error"]
  /\ pending' = [pending EXCEPT ![rt] = NoFields]
  /\ Catch(rt, "update failed")
  /\ UNCHANGED <<gate, now, env, reminders, emails, request, snapshot, idx,
                 processedCount, sentCount, recorded, started, overlapped>>

Step(rt) ==
  \/ FetchResolve(rt) \/ FetchReject(rt)
  \/ UserMissing(rt) \/ UserFound(rt) \/ UserReject(rt)
  \/ SendMailResolve(rt) \/ SendMailReject(rt)
  \/ UpdateResolve(rt) \/ UpdateReject(rt)

Next ==
  \/ Tick
  \/ \E rt \in Routes, h \in HeaderValues : Request(rt, h)
  \/ \E rt \in Routes : Step(rt)

Spec == Init /\ [][Next]_vars

\* Every awaited call of a cycle (the fetch, the user lookup, sendMail, the
\* update) eventually resolves or rejects.
LiveSpec == Spec /\ \A rt \in Routes : WF_vars(Step(rt))

\* ---------------------------------------------------------- the gates alone
\* One call of a gate with arguments and a clock drawn from the samples
\* below; the service itself stays as it was started.
GateHours == {0, 9, 10, 23}
GateMinutes == {0, 15, 16, 59}
GateMoments ==
  {d * MinutesPerDay + h * 60 + m : d \in Days, h \in GateHours, m \in GateMinutes}
WeekMoments == {(d - 1) * MinutesPerDay + 9 * 60 : d \in 1..Len(Calendar)}

TimeStrings == {"09:00", "09:30", "10:00", "00:15", "23:59"}
DayStrings == {"Monday", "MONDAY", "Funday", "tuesday", "sunday", "SaTuRdAy",
               "Wednesday", "THURSDAY", "friday", "mon", ""}
DayLists == {<<>>} \cup {<<a>> : a \in DayStrings}
              \cup {<<a, b>> : a \in DayStrings, b \in DayStrings}

GateCalls ==
  {[NoCall EXCEPT !.fn = "isTimeToSend", !.time = x, !.at = t] :
     x \in TimeStrings, t \in GateMoments}
  \cup {[NoCall EXCEPT !.fn = "shouldSendToday", !.days = l, !.at = t] :
          l \in DayLists, t \in WeekMoments}
  \cup {[NoCall EXCEPT !.fn = "wasSentToday", !.at = t] : t \in GateMoments}
  \cup {[NoCall EXCEPT !.fn = "wasSentToday", !.lastSent = toISOString(u),
                       !.sentAt = u, !.at = t] :
          u \in GateMoments, t \in GateMoments}

GateInit ==
  /\ now = CHOOSE t \in Moments : \A u \in Moments : t <= u
  /\ env \in EnvConfigs
  /\ reminders = [r \in RemIds |-> NewReminder(ConfigOf(r))]
  /\ emails = [r \in RemIds |-> [d \in Days |-> 0]]
  /\ pc = [rt \in Routes |-> "idle"]
  /\ request = [rt \in Routes |-> NoRequest]
  /\ response = [rt \in Routes |-> NoResponse]
  /\ snapshot = [rt \in Routes |-> <<>>]
  /\ idx = [rt \in Routes |-> 1]
  /\ processedCount = [rt \in Routes |-> 0]
  /\ sentCount = [rt \in Routes |-> 0]
  /\ pending = [rt \in Routes |-> NoFields]
  /\ cycle = [rt \in Routes |-> NoCycle]
  /\ recorded = [r \in RemIds |-> [d \in Days |-> 0]]
  /\ started = 0
  /\ overlapped = FALSE
  /\ gate \in GateCalls

ServiceVars == <<now, env, reminders, emails, pc, request, response, snapshot, idx,
                 processedCount, sentCount, pending, cycle, recorded, started,
                 overlapped>>

CallIsTimeToSend ==
  /\ gate.fn = "isTimeToSend" /\ ~gate.called
  /\ gate' = [gate EXCEPT !.called = TRUE,
                          !.result = isTimeToSend(gate.time, gate.at)]
  /\ UNCHANGED ServiceVars

CallShouldSendToday ==
  /\ gate.fn = "shouldSendToday" /\ ~gate.called
  /\ gate' = [gate EXCEPT !.called = TRUE,
                          !.result = shouldSendToday(gate.days, gate.at)]
  /\ UNCHANGED ServiceVars

CallWasSentToday ==
  /\ gate.fn = "wasSentToday" /\ ~gate.called
  /\ gate' = [gate EXCEPT !.called = TRUE,
                          !.result = wasSentToday(gate.lastSent, gate.at)]
  /\ UNCHANGED ServiceVars

GateNext == CallIsTimeToSend \/ CallShouldSendToday \/ CallWasSentToday

GateSpec == GateInit /\ [][GateNext]_vars



\* ------------------------------------------------------------ properties
Entry(rt, k) == cycle[rt].seen[snapshot[rt][k].id]
Positions(rt) == 1..Len(snapshot[rt])

\* The sender has been called for the document at position k of the cycle.
SenderInvoked(rt, k) ==
  \/ Entry(rt, k).send # "none"
  \/ pc[rt] = "sendMail" /\ idx[rt] = k

\* The response of the route is the one of its current cycle.
OwnResponse(rt) == request[rt].invoked /\ pc[rt] = "idle" /\ cycle[rt].ret # "none"

\* C1: a reminder's lastSent changes only in the step that records a
\* successful delivery of that reminder (the success update of a cycle whose
\* sender returned true for it); every other step, among them the record of
\* a failed send, a missing user and a reminder passed over, leaves it as it
\* was, absent included.
C1_LastSentOnlyOnSuccess ==
  [][\A r \in RemIds :
       reminders'[r].lastSent # reminders[r].lastSent =>
         \E rt \in Routes :
           /\ pc[rt] = "update"
           /\ Doc(rt).id = r
           /\ cycle[rt].seen[r].send = "true"
           /\ reminders'[r].lastSent = pending[rt].lastSent]_vars

\* A failed send has been recorded on a reminder that was never sent.
C1_Witness ==
  \E r \in RemIds :
    /\ reminders[r].lastSentStatus = "failed"
    /\ reminders[r].lastSentError # Absent
    /\ reminders[r].lastSent = Absent

\* C2 (as stated): whatever the invocations of a day, each reminder has at
\* most one successful delivery recorded that day.
C2_AtMostOneSuccessPerDay ==
  \A r \in RemIds, d \in Days : recorded[r][d] <= 1

\* C2 (amended): as long as no invocation has started while another was
\* running, each reminder has at most one successful delivery recorded per
\* day.
C2_AtMostOneSuccessPerDayNoOverlap ==
  ~overlapped => \A r \in RemIds, d \in Days : recorded[r][d] <= 1

\* Two cycles that did not overlap: one recorded the delivery of a reminder,
\* the later one evaluated the reminder in the window of the same day and
\* passed it over.
C2_Witness ==
  /\ ~overlapped
  /\ \E rt \in Routes : \E k \in Positions(rt) :
       LET doc == snapshot[rt][k]
       IN /\ Entry(rt, k).evaluated
          /\ isTimeToSend(doc.data.time, Entry(rt, k).at)
          /\ shouldSendToday(doc.data.days, Entry(rt, k).at)
          /\ doc.data.lastSent # Absent
          /\ recorded[doc.id][DayOf(Entry(rt, k).at)] = 1
          /\ Entry(rt, k).send = "none"

\* C3: in every cycle the sender is called for a fetched reminder iff, when
\* the reminder was evaluated, the day gate and the time gate passed, the
\* fetched lastSent was not of that day, and the lookup found the user's
\* document; no reminder outside the fetched (enabled) ones is handled, and a
\* reminder whose fetched lastSent is of the day of its evaluation is never
\* sent.
C3_SenderInvokedIffDue ==
  \A rt \in Routes :
    /\ \A k \in Positions(rt) :
         LET doc == snapshot[rt][k]
             e == Entry(rt, k)
         IN /\ doc.data.enabled = TRUE
            /\ SenderInvoked(rt, k) <=>
                 /\ e.evaluated
                 /\ shouldSendToday(doc.data.days, e.at)
                 /\ isTimeToSend(doc.data.time, e.at)
                 /\ ~wasSentToday(doc.data.lastSent, e.at)
                 /\ doc.data.userId \in DOMAIN UserDocs
                 /\ ~(pc[rt] = "getUser" /\ idx[rt] = k)
                 /\ e.user # "error"
            /\ (/\ e.evaluated
                /\ doc.data.lastSent # Absent
                /\ DayOf(parseISO(doc.data.lastSent)) = DayOf(e.at))
               => ~SenderInvoked(rt, k)
    /\ \A r \in RemIds :
         (\A k \in Positions(rt) : snapshot[rt][k].id # r) => cycle[rt].seen[r] = NoEntry

\* One cycle has sent a reminder, and another cycle has evaluated the same
\* reminder in its window with a lastSent of that day and has not sent it.
C3_Witness ==
  \E a \in Routes, b \in Routes : \E i \in Positions(a), j \in Positions(b) :
    /\ a # b
    /\ snapshot[a][i].id = snapshot[b][j].id
    /\ Entry(a, i).send = "true"
    /\ Entry(b, j).evaluated
    /\ isTimeToSend(snapshot[b][j].data.time, Entry(b, j).at)
    /\ wasSentToday(snapshot[b][j].data.lastSent, Entry(b, j).at)
    /\ ~SenderInvoked(b, j)

\* C4 (as stated): a cycle that has ended without having evaluated every
\* fetched reminder is a cycle whose fetch failed.
C4_OnlyFetchFailureEndsCycleEarly ==
  \A rt \in Routes :
    (cycle[rt].ret # "none" /\ cycle[rt].fetch # "failed") =>
      \A k \in Positions(rt) : Entry(rt, k).evaluated

\* C5 (as stated): in a returned summary, processed is the number of
\* reminders that passed the due check and whose user was found, and sent the
\* number of successful deliveries.
C5_SummaryCounts ==
  \A rt \in Routes :
    (OwnResponse(rt) /\ cycle[rt].ret = "summary") =>
      /\ response[rt].body.success = TRUE
      /\ response[rt].body.processed =
           Cardinality({k \in Positions(rt) : Entry(rt, k).user = "exists"})
      /\ response[rt].body.sent =
           Cardinality({k \in Positions(rt) : Entry(rt, k).send = "true"})

\* C6: a cycle whose fetch failed is over, has answered {success: false,
\* error}, has fetched nothing, and has neither called the sender nor issued
\* an update for any reminder.
C6_FetchFailure ==
  \A rt \in Routes :
    cycle[rt].fetch = "failed" =>
      /\ pc[rt] = "idle"
      /\ request[rt].invoked =>
           /\ response[rt].status = 200
           /\ DOMAIN response[rt].body = {"success", "error"}
           /\ response[rt].body.success = FALSE
      /\ snapshot[rt] = <<>>
      /\ \A r \in RemIds : cycle[rt].seen[r] = NoEntry

\* The fetch of a cycle has failed and the failure has been returned.
C6_Witness ==
  \E rt \in Routes :
    /\ cycle[rt].fetch = "failed"
    /\ request[rt].invoked
    /\ response[rt].body = [success |-> FALSE, error |-> "fetch failed"]

\* C7 (as stated): a request whose header is missing or differs from the
\* configured secret is answered with 401 and processReminders is not invoked
\* for it.
C7_BadHeaderIsRefused ==
  \A rt \in Routes :
    (request[rt].seen /\ (request[rt].header = Undefined \/ request[rt].header # Secret(rt)))
      => (~request[rt].invoked /\ response[rt].status = 401)

\* C8 (as stated): the step that records a successful send leaves the
\* reminder with the lastSent of the send, lastSentStatus = success, and
\* without the earlier failure markers: no failed status and no lastSentError
\* of an earlier failure.
C8_SuccessOverwritesFailureMarkers ==
  [][\A rt \in Routes :
       (pc[rt] = "update" /\ cycle[rt].seen[Doc(rt).id].send = "true"
          /\ cycle'[rt].seen[Doc(rt).id].write = "applied") =>
         LET r == Doc(rt).id
         IN /\ reminders'[r].lastSent = pending[rt].lastSent
            /\ reminders'[r].lastSentStatus = "success"
            /\ reminders[r].lastSentError # Absent =>
                 reminders'[r].lastSentError # reminders[r].lastSentError]_vars

\* C8 (amended): when the sender returns true the update that is issued
\* carries lastSent = now, read back as the same instant, and lastSentStatus
\* = success; the step that records it leaves the reminder with that
\* lastSent and with lastSentStatus = success, whatever the status was, and
\* leaves lastSentError as it was.
C8_SuccessRecord ==
  [][\A rt \in Routes :
       /\ (pc[rt] = "sendMail" /\ cycle'[rt].seen[Doc(rt).id].send = "true") =>
            /\ parseISO(pending'[rt].lastSent) = now
            /\ DayOf(parseISO(pending'[rt].lastSent)) = DayOf(now)
            /\ pending'[rt] = [lastSent |-> pending'[rt].lastSent,
                               lastSentStatus |-> "success"]
       /\ (pc[rt] = "update" /\ cycle[rt].seen[Doc(rt).id].send = "true"
             /\ cycle'[rt].seen[Doc(rt).id].write = "applied") =>
            LET r == Doc(rt).id
            IN /\ reminders'[r].lastSent = pending[rt].lastSent
               /\ reminders'[r].lastSentStatus = "success"
               /\ reminders'[r].lastSentError = reminders[r].lastSentError]_vars

\* A success has been recorded on a reminder that carried the markers of an
\* earlier failed send.
C8_Witness ==
  \E r \in RemIds :
    /\ reminders[r].lastSentStatus = "success"
    /\ reminders[r].lastSent # Absent
    /\ reminders[r].lastSentError # Absent

\* C9 (as stated): once the sender has returned false for a reminder, the
\* failure update is issued and, the loop having left the reminder, it has
\* been applied: the cycle never stops at that reminder.
C9_FailedSendIsRecordedAndCycleGoesOn ==
  \A rt \in Routes : \A k \in Positions(rt) :
    Entry(rt, k).send = "false" =>
      IF idx[rt] = k
      THEN /\ pc[rt] = "update"
           /\ DOMAIN pending[rt] = {"lastSentStatus", "lastSentError"}
           /\ pending[rt].lastSentStatus = "failed"
           /\ Entry(rt, k).write = "issued"
      ELSE Entry(rt, k).write = "applied"

\* C10: the step in which the lookup of a due reminder's user finds no
\* document calls no sender, writes nothing to the store and hands no mail to
\* the transport: the cycle moves past the reminder, to a later one or to its
\* summary.
C10_MissingUserIsSkipped ==
  [][\A rt \in Routes :
       (/\ pc[rt] = "getUser"
        /\ Doc(rt).data.userId \notin DOMAIN UserDocs
        /\ cycle'[rt] # cycle[rt]
        /\ cycle'[rt].seen[Doc(rt).id].user # "error") =>
         /\ reminders' = reminders
         /\ emails' = emails
         /\ pending' = pending
         /\ pc'[rt] # "sendMail"
         /\ idx'[rt] > idx[rt]
         /\ cycle'[rt].seen[Doc(rt).id].send = "none"
         /\ cycle'[rt].seen[Doc(rt).id].write = "none"
         /\ cycle'[rt].ret # "error"]_vars

\* A cycle has passed over a reminder whose user has no document and has
\* gone on to send a later reminder.
C10_Witness ==
  \E rt \in Routes : \E i \in Positions(rt), j \in Positions(rt) :
    /\ i < j
    /\ Entry(rt, i).user = "missing"
    /\ Entry(rt, i).send = "none"
    /\ Entry(rt, j).send = "true"

\* The target times of the samples: their text, and the hour and the minute
\* that the text denotes.
TargetTimes ==
  { [text |-> "09:00", hour |-> 9, minute |-> 0],
    [text |-> "09:30", hour |-> 9, minute |-> 30],
    [text |-> "10:00", hour |-> 10, minute |-> 0],
    [text |-> "00:15", hour |-> 0, minute |-> 15],
    [text |-> "23:59", hour |-> 23, minute |-> 59] }

\* C11: isTimeToSend called with a target "HH:MM" returns true iff the hour
\* of the clock is HH and the minute of the clock is at most 15; a target of
\* the same hour with another minute part gives the same answer.
C11_TimeGate ==
  (gate.fn = "isTimeToSend" /\ gate.called) =>
    \E target \in TargetTimes :
      /\ target.text = gate.time
      /\ gate.result <=>
           (getHours(gate.at) = target.hour /\ getMinutes(gate.at) <= 15)
      /\ \A other \in TargetTimes :
           other.hour = target.hour =>
             isTimeToSend(other.text, gate.at) = gate.result

\* The gate has answered true for the target 09:30 at 09:15.
C11_Witness ==
  /\ gate.fn = "isTimeToSend" /\ gate.called
  /\ gate.time = "09:30"
  /\ getHours(gate.at) = 9 /\ getMinutes(gate.at) = 15
  /\ gate.result = TRUE

\* The English names of the weekdays 0 (Sunday) .. 6 (Saturday), and
\* equality of two strings up to the case of their letters.
WeekdayNames == <<Str_sunday, Str_monday, Str_tuesday, Str_wednesday,
                  Str_thursday, Str_friday, Str_saturday>>
LetterRank(c) ==
  IF \E k \in 1..Len(UpperCase) : UpperCase[k] = c
  THEN CHOOSE k \in 1..Len(UpperCase) : UpperCase[k] = c
  ELSE IF \E k \in 1..Len(LowerCase) : LowerCase[k] = c
       THEN CHOOSE k \in 1..Len(LowerCase) : LowerCase[k] = c
       ELSE 0
EqualsIgnoringCase(a, b) ==
  /\ Len(a) = Len(b)
  /\ \A i \in 1..Len(a) :
       \/ a[i] = b[i]
       \/ LetterRank(a[i]) > 0 /\ LetterRank(a[i]) = LetterRank(b[i])
UnknownDayStrings == {"Funday", "mon", ""}

\* C12: shouldSendToday called with a list of names returns true iff some
\* name of the list is, up to case, the name of the clock's weekday; it
\* returns a boolean whatever the names are, and false when every name of
\* the list is unknown.
C12_DayGate ==
  (gate.fn = "shouldSendToday" /\ gate.called) =>
    /\ gate.result \in BOOLEAN
    /\ gate.result <=>
         \E i \in 1..Len(gate.days) :
           EqualsIgnoringCase(CharsOf[gate.days[i]], WeekdayNames[getDay(gate.at) + 1])
    /\ (\A i \in 1..Len(gate.days) : gate.days[i] \in UnknownDayStrings) =>
         gate.result = FALSE

\* The gate has answered true on a Saturday for a list that holds an unknown
\* name and the name of the day in mixed case.
C12_Witness ==
  /\ gate.fn = "shouldSendToday" /\ gate.called
  /\ gate.days = <<"Funday", "SaTuRdAy">>
  /\ getDay(gate.at) = 6
  /\ gate.result = TRUE

\* The local calendar date of an instant.
LocalDate(t) ==
  [year |-> Calendar[DayOf(t) + 1].year, month |-> Calendar[DayOf(t) + 1].month,
   date |-> Calendar[DayOf(t) + 1].date]

\* C13: wasSentToday returns false when lastSent is absent; for a lastSent
\* written at some instant it returns true iff the local calendar date of
\* that instant is the clock's, whatever the two times of day: also when the
\* two are almost a day apart, and not when they are less than a day apart
\* on two dates.
C13_SentTodayGate ==
  (gate.fn = "wasSentToday" /\ gate.called) =>
    IF gate.lastSent = Absent
    THEN gate.result = FALSE
    ELSE /\ gate.result <=> (LocalDate(gate.sentAt) = LocalDate(gate.at))
         /\ DayOf(gate.sentAt) = DayOf(gate.at) => gate.result = TRUE
         /\ (DayOf(gate.sentAt) # DayOf(gate.at)
               /\ gate.at - gate.sentAt < MinutesPerDay) => gate.result = FALSE

\* The gate has answered true for a lastSent written at 00:00 with the clock
\* at 23:59 of the same day.
C13_Witness ==
  /\ gate.fn = "wasSentToday" /\ gate.called
  /\ gate.lastSent # Absent
  /\ getHours(gate.sentAt) = 0 /\ getMinutes(gate.sentAt) = 0
  /\ getHours(gate.at) = 23 /\ getMinutes(gate.at) = 59
  /\ DayOf(gate.sentAt) = DayOf(gate.at)
  /\ gate.result = TRUE

\* C14: nothing keeps two cycles apart and nothing makes a cycle look at the
\* store again: a request with the right header on a route that is idle
\* starts a cycle whatever the other route is doing, and a cycle that has
\* called the sender for a reminder of its snapshot can hand the mail over
\* whatever lastSent the store holds for that reminder by then.
C14_NoMutualExclusion ==
  \A rt \in Routes :
    /\ (pc[rt] = "idle" /\ started < MaxCycles) => ENABLED Invoke(rt, Secret(rt))
    /\ pc[rt] = "sendMail" => ENABLED SendMailResolve(rt)

\* Two overlapping cycles hold the same reminder with no lastSent in their
\* snapshots, both have evaluated it on the same day, both have handed a mail
\* for it to the transport, and the store holds a lastSent of that day.
C14_Witness ==
  \E a \in Routes, b \in Routes : \E i \in Positions(a), j \in Positions(b) :
    /\ a # b
    /\ overlapped
    /\ snapshot[a][i].id = snapshot[b][j].id
    /\ ~wasSentToday(snapshot[a][i].data.lastSent, Entry(a, i).at)
    /\ ~wasSentToday(snapshot[b][j].data.lastSent, Entry(b, j).at)
    /\ DayOf(Entry(a, i).at) = DayOf(Entry(b, j).at)
    /\ Entry(a, i).send = "true"
    /\ Entry(b, j).send = "true"
    /\ emails[snapshot[a][i].id][DayOf(Entry(a, i).at)] = 2
    /\ wasSentToday(reminders[snapshot[a][i].id].lastSent, Entry(a, i).at)

\* The fetched copy of a reminder carries the record of a failed send of the
\* day of t, and no delivery of that day.
FailedEarlierToday(reminder, t) ==
  /\ reminder.lastSentStatus = "failed"
  /\ reminder.lastSentError # Absent
  /\ DayOf(parseISO(reminder.lastSentError)) = DayOf(t)
  /\ reminder.lastSent # Absent => DayOf(parseISO(reminder.lastSent)) # DayOf(t)

\* The sender is never called twice for a reminder within one cycle: once it
\* has returned false the cycle is at the update of that reminder or past it.
NoRetryInCycle(rt, k) ==
  Entry(rt, k).send = "false" =>
    /\ ~(pc[rt] = "sendMail" /\ idx[rt] = k)
    /\ idx[rt] >= k

DeliveryFields == {"lastSent", "lastSentStatus", "lastSentError"}

\* C16: no step adds or removes a reminder; a step that changes a reminder
\* changes nothing but its lastSent, lastSentStatus and lastSentError, and is
\* the update of a cycle that fetched the reminder as enabled, found it due
\* and called the sender for it.
C16_WritesOnlyDeliveryRecord ==
  [][/\ DOMAIN reminders' = DOMAIN reminders
     /\ \A r \in RemIds :
          reminders'[r] # reminders[r] =>
            /\ DOMAIN reminders'[r] = DOMAIN reminders[r]
            /\ \A f \in DOMAIN reminders[r] \ DeliveryFields :
                 reminders'[r][f] = reminders[r][f]
            /\ reminders[r].enabled = TRUE
            /\ \E rt \in Routes :
                 /\ pc[rt] = "update"
                 /\ Doc(rt).id = r
                 /\ Doc(rt).data.enabled = TRUE
                 /\ PassesGates(Doc(rt).data, cycle[rt].seen[r].at)
                 /\ cycle[rt].seen[r].send # "none"]_vars

\* A cycle has applied an update to one reminder, has passed over another
\* that was not due, and a disabled reminder exists: the latter two are as
\* the client app stored them.
C16_Witness ==
  \E rt \in Routes : \E i \in Positions(rt), j \in Positions(rt) :
    /\ Entry(rt, i).write = "applied"
    /\ reminders[snapshot[rt][i].id] # NewReminder(ConfigOf(snapshot[rt][i].id))
    /\ Entry(rt, j).evaluated
    /\ ~PassesGates(snapshot[rt][j].data, Entry(rt, j).at)
    /\ reminders[snapshot[rt][j].id] = NewReminder(ConfigOf(snapshot[rt][j].id))
    /\ \E r \in RemIds :
         reminders[r].enabled = FALSE /\ reminders[r] = NewReminder(ConfigOf(r))

\* The value processReminders has returned to the route, which has sent it.
Returned(rt) ==
  /\ pc[rt] = "idle"
  /\ response[rt].status = 200
  /\ \/ /\ cycle[rt].ret = "summary"
        /\ DOMAIN response[rt].body = {"success", "processed", "sent"}
        /\ response[rt].body.success = TRUE
     \/ /\ cycle[rt].ret = "error"
        /\ DOMAIN response[rt].body = {"success", "error"}
        /\ response[rt].body.success = FALSE

\* C17: when every awaited call eventually resolves or rejects, a cycle that
\* has been started eventually returns {success: true, processed, sent} or
\* {success: false, error} to its route.
C17_CycleReturns ==
  \A rt \in Routes : (pc[rt] # "idle") ~> Returned(rt)

\* A cycle whose fetch succeeded has been ended by the rejection of an update
\* and has returned the failure.
C17_Witness ==
  \E rt \in Routes : \E k \in Positions(rt) :
    /\ Returned(rt)
    /\ cycle[rt].fetch = "ok"
    /\ Entry(rt, k).write = "rejected"
    /\ response[rt].body.success = FALSE

\* C18 (as stated): as long as no cycle has started while another was
\* running, at most one mail per reminder and day has been handed to the
\* transport.
C18_AtMostOneHandOffPerDayNoOverlap ==
  ~overlapped => \A r \in RemIds, d \in Days : emails[r][d] <= 1

====
